---- MODULE Spec2Model ----
(***************************************************************************)
(* Model of the two favicon generators of the repository:                  *)
(*   create_favicon.py         draws a rounded panel from two rectangles   *)
(*                             and four pie slices, renders the letter K   *)
(*                             from a font and saves one PNG;              *)
(*   create_better_favicon.py  draws the icon from primitives, exports it  *)
(*                             as six sized PNGs, one canonical PNG and    *)
(*                             one ICO container, then prints a report.    *)
(* A run executes one of the two scripts from its first statement to its   *)
(* last, or to the first statement that raises.                            *)
(***************************************************************************)
EXTENDS Integers, Sequences, FiniteSets, TLC

VARIABLES
    script,      \* which script this run executes
    pc,          \* the statement the run is at
    img,         \* create_favicon.py: the RGBA canvas, pixel -> colour
    rrArgs,      \* the arguments draw_rounded_rectangle is called with
    drawLog,     \* the ImageDraw calls draw_rounded_rectangle has issued
    font,        \* create_favicon.py: the font object in use
    font_error,  \* whether ImageFont.truetype raised
    bbox,        \* draw.textbbox((0, 0), text, font): <<left, top, right, bottom>>
    pos,         \* <<x, y>> handed to draw.text
    ink,         \* the box the glyph covers on the canvas once drawn
    better_img,  \* create_better_favicon.py: the source canvas
    resized,     \* the raster of the current iteration of the PNG loop
    idx,         \* position in the list the current loop iterates
    ico_images,  \* the rasters collected for the ICO
    fs,          \* the files on disk, path -> content
    attempts,    \* every save attempted so far, in order
    stdout       \* the lines printed so far

vars == <<script, pc, img, rrArgs, drawLog, font, font_error, bbox, pos, ink,
          better_img, resized, idx, ico_images, fs, attempts, stdout>>

(***************************************************************************)
(* Bounds of the model.                                                    *)
(***************************************************************************)
\* left and top of a measured text box range over 0..MaxBearing
MaxBearing == 3
\* width and height of a measured text box range over MinGlyph..MaxGlyph
MinGlyph == 9
MaxGlyph == 11
\* boxes tried on draw_rounded_rectangle start at 0..MaxMargin and end
\* 0..MaxMargin pixels before the last row and column of the canvas
MaxMargin == 2
\* corner radii tried on draw_rounded_rectangle are 1..MaxRadius
MaxRadius == 6

(***************************************************************************)
(* create_favicon.py: constants of the script.                             *)
(***************************************************************************)
size == 32
margin == 2
corner_radius == 6
\* the vertical adjustment subtracted from the centred y
y_offset == 2

Pixels == (0 .. size - 1) \X (0 .. size - 1)

\* Image.new('RGBA', (size, size), (255, 255, 255, 0)): every pixel transparent
NewCanvas == [p \in Pixels |-> "transparent"]

Abs(n) == IF n < 0 THEN -n ELSE n

(***************************************************************************)
(* ImageDraw primitives, as the calls of the script use them.              *)
(* Coordinates are image coordinates: x grows to the right, y grows        *)
(* downwards. A box is <<x0, y0, x1, y1>> with both corners included.      *)
(* A pie slice is taken as the pixels whose centre offset satisfies the     *)
(* ellipse inequality; the library's scan conversion may differ from it by  *)
(* single pixels on the arc.                                               *)
(***************************************************************************)

\* draw.rectangle(box, fill, outline, width=1): whether it paints pixel p
InRectangle(box, p) ==
    /\ box[1] <= p[1] /\ p[1] <= box[3]
    /\ box[2] <= p[2] /\ p[2] <= box[4]

\* the pixels of the rectangle painted in the outline colour (width=1)
OnRectangleBorder(box, p) ==
    /\ InRectangle(box, p)
    /\ (p[1] = box[1] \/ p[1] = box[3] \/ p[2] = box[2] \/ p[2] = box[4])

\* The quadrant a pie slice of 90 degrees starting at angle a covers, as the
\* signs <<sx, sy>> of the offsets from the centre. ImageDraw measures angles
\* from 3 o'clock and increasing clockwise on the image, so angle a points to
\* <<cos a, sin a>> with y growing downwards.
QuadrantClockwise(a) ==
    CASE a = 0   -> <<1, 1>>
      [] a = 90  -> <<-1, 1>>
      [] a = 180 -> <<-1, -1>>
      [] a = 270 -> <<1, -1>>

\* whether offset <<dx, dy>> from the centre lies between the angles start
\* and end (multiples of 90, as in every call of the script)
InSlice(dx, dy, start, end) ==
    \E q \in 0 .. 3 :
        /\ start <= 90 * q
        /\ 90 * (q + 1) <= end
        /\ dx * QuadrantClockwise(90 * q)[1] >= 0
        /\ dy * QuadrantClockwise(90 * q)[2] >= 0

InPiesliceWholeBox(box, start, end, p) == InRectangle(box, p)

\* draw.pieslice(box, start, end, ...): whether it paints pixel p, a pixel of
\* the ellipse inscribed in box that lies between the two angles
InPieslice(box, start, end, p) ==
    LET cx == (box[1] + box[3]) \div 2
        cy == (box[2] + box[4]) \div 2
        rx == (box[3] - box[1]) \div 2
        ry == (box[4] - box[2]) \div 2
    IN  /\ InRectangle(box, p)
        /\ (p[1] - cx) * (p[1] - cx) * ry * ry
             + (p[2] - cy) * (p[2] - cy) * rx * rx <= rx * rx * ry * ry
        /\ InSlice(p[1] - cx, p[2] - cy, start, end)

\* the outline of a pie slice: its two straight edges and its arc
OnPiesliceBorder(box, start, end, p) ==
    LET cx == (box[1] + box[3]) \div 2
        cy == (box[2] + box[4]) \div 2
        rx == (box[3] - box[1]) \div 2
    IN  /\ InPieslice(box, start, end, p)
        /\ \/ p[1] = cx
           \/ p[2] = cy
           \/ (p[1] - cx) * (p[1] - cx) + (p[2] - cy) * (p[2] - cy)
                > (rx - 1) * (rx - 1)

\* whether a logged call paints pixel p, and whether in the outline colour
CallPaints(c, p) ==
    IF c.op = "rectangle" THEN InRectangle(c.box, p)
    ELSE InPieslice(c.box, c.start, c.end, p)

CallOutlines(c, p) ==
    IF c.op = "rectangle" THEN OnRectangleBorder(c.box, p)
    ELSE OnPiesliceBorder(c.box, c.start, c.end, p)

\* one call applied to the canvas: fill='white', outline='#e5e7eb', width=1
ApplyCall(im, c) ==
    [p \in Pixels |->
        IF CallOutlines(c, p) THEN "#e5e7eb"
        ELSE IF CallPaints(c, p) THEN "white"
        ELSE im[p]]

Rect(box) == [op |-> "rectangle", box |-> box, start |-> 0, end |-> 0]
Pie(box, start, end) == [op |-> "pieslice", box |-> box, start |-> start, end |-> end]

RoundedRectangleCallsDiameter(xy, r) ==
    LET x0 == xy[1]  y0 == xy[2]  x1 == xy[3]  y1 == xy[4]
    IN  << Rect(<<x0 + 2 * r, y0, x1 - 2 * r, y1>>),
           Rect(<<x0, y0 + 2 * r, x1, y1 - 2 * r>>),
           Pie(<<x0, y0, x0 + r * 2, y0 + r * 2>>, 180, 270),
           Pie(<<x1 - r * 2, y0, x1, y0 + r * 2>>, 270, 360),
           Pie(<<x0, y1 - r * 2, x0 + r * 2, y1>>, 90, 180),
           Pie(<<x1 - r * 2, y1 - r * 2, x1, y1>>, 0, 90) >>

RoundedRectangleCallsMirrored(xy, r) ==
    LET x0 == xy[1]  y0 == xy[2]  x1 == xy[3]  y1 == xy[4]
    IN  << Rect(<<x0 + r, y0, x1 - r, y1>>),
           Rect(<<x0, y0 + r, x1, y1 - r>>),
           Pie(<<x0, y0, x0 + r * 2, y0 + r * 2>>, 90, 180),
           Pie(<<x1 - r * 2, y0, x1, y0 + r * 2>>, 0, 90),
           Pie(<<x0, y1 - r * 2, x0 + r * 2, y1>>, 180, 270),
           Pie(<<x1 - r * 2, y1 - r * 2, x1, y1>>, 270, 360) >>

\* draw_rounded_rectangle: the six ImageDraw calls it issues, in order
RoundedRectangleCalls(xy, r) ==
    LET x0 == xy[1]  y0 == xy[2]  x1 == xy[3]  y1 == xy[4]
    IN  << Rect(<<x0 + r, y0, x1 - r, y1>>),
           Rect(<<x0, y0 + r, x1, y1 - r>>),
           Pie(<<x0, y0, x0 + r * 2, y0 + r * 2>>, 180, 270),
           Pie(<<x1 - r * 2, y0, x1, y0 + r * 2>>, 270, 360),
           Pie(<<x0, y1 - r * 2, x0 + r * 2, y1>>, 90, 180),
           Pie(<<x1 - r * 2, y1 - r * 2, x1, y1>>, 0, 90) >>

RECURSIVE ApplyCalls(_, _)
ApplyCalls(im, calls) ==
    IF calls = <<>> THEN im
    ELSE ApplyCalls(ApplyCall(im, Head(calls)), Tail(calls))

\* draw_rounded_rectangle(draw, xy, corner_radius, fill, outline, width):
\* the canvas after its six calls
draw_rounded_rectangle(im, xy, r) == ApplyCalls(im, RoundedRectangleCalls(xy, r))

\* the argument list of the call the script makes
BackgroundArgs ==
    [xy |-> <<margin, margin, size - margin, size - margin>>, r |-> corner_radius]

(***************************************************************************)
(* create_favicon.py: the letter.                                          *)
(***************************************************************************)
RequestedFont == "/System/Library/Fonts/Arial.ttf"
DefaultFont == "load_default"

\* the boxes draw.textbbox((0, 0), "K", font) may return: the glyph's ink
\* starts left pixels right of and top pixels below the drawing origin
BBoxes ==
    {<<l, t, l + w, t + h>> :
        l \in 0 .. MaxBearing, t \in 0 .. MaxBearing,
        w \in MinGlyph .. MaxGlyph, h \in MinGlyph .. MaxGlyph}

text_width(bb) == bb[3] - bb[1]
text_height(bb) == bb[4] - bb[2]

\* Python's // on integers: the floor of the quotient
FloorDiv(a, b) == a \div b

\* x = (size - text_width) // 2 ; y = (size - text_height) // 2 - 2
TextPosition(bb) ==
    << FloorDiv(size - text_width(bb), 2),
       FloorDiv(size - text_height(bb), 2) - y_offset >>

\* draw.text((x, y), text, font): the ink lands where textbbox((x, y), ...)
\* says, the measured box moved by the drawing origin
DrawnInk(xy, bb) == <<xy[1] + bb[1], xy[2] + bb[2], xy[1] + bb[3], xy[2] + bb[4]>>

\* the pixels of the ink box (right and bottom excluded) painted fill='black'
DrawText(im, box) ==
    [p \in Pixels |->
        IF /\ box[1] <= p[1] /\ p[1] < box[3]
           /\ box[2] <= p[2] /\ p[2] < box[4]
        THEN "black" ELSE im[p]]

(***************************************************************************)
(* create_better_favicon.py: rasters, files and the export.                *)
(* A raster is described by its pixel size, the drawing calls its content  *)
(* comes from, and the number of resampling steps between the drawn canvas *)
(* and it.                                                                 *)
(***************************************************************************)
NoRaster == [size |-> <<0, 0>>, ops |-> <<>>, hops |-> 0]

\* Image.new('RGBA', (32, 32), (255, 255, 255, 255))
NewImage == [size |-> <<32, 32>>, ops |-> <<>>, hops |-> 0]

\* the four drawing calls of create_favicon(), in order
DrawCalls ==
    << [op |-> "rounded_rectangle", xy |-> <<1, 1, 30, 30>>],
       [op |-> "rectangle", xy |-> <<8, 6, 10, 25>>],
       [op |-> "polygon", xy |-> <<10, 6, 18, 6, 18, 8, 12, 14, 10, 14>>],
       [op |-> "polygon", xy |-> <<10, 17, 12, 17, 18, 25, 18, 27, 14, 27, 10, 20>>] >>

\* a drawing call mutates the canvas in place
Draw(im, c) == [im EXCEPT !.ops = Append(@, c)]

\* Image.resize(size, LANCZOS): a new raster of that size, one resampling
\* step further from the drawn canvas; the receiver is left as it was
Resize(im, sz) == [size |-> sz, ops |-> im.ops, hops |-> im.hops + 1]

sizes == <<16, 32, 48, 96, 144, 256>>
ico_sizes == << <<16, 16>>, <<32, 32>>, <<48, 48>> >>

PngPathNoSize(s) == "static/images/favicon-" \o ".png"

\* f'static/images/favicon-{size}.png'
PngPath(s) == "static/images/favicon-" \o ToString(s) \o ".png"
CanonicalPath == "static/images/favicon.png"
IcoPath == "static/images/favicon.ico"
\* the path create_favicon.py saves to
FaviconPath == "/Users/gyeomkim/development/blog/kigo/assets/images/favicon.png"

Range(f) == {f[k] : k \in DOMAIN f}

BetterPaths == {PngPath(s) : s \in Range(sizes)} \cup {CanonicalPath, IcoPath}
Paths == BetterPaths \cup {FaviconPath}

NoFile == [fmt |-> "none", frames |-> <<>>]

\* Image.save(path, 'PNG'): the file holds the one raster
PngFile(im) == [fmt |-> "PNG", frames |-> <<im>>]

\* sorted(set(sizes)) of the ICO writer: tuples in lexicographic order
LexLess(a, b) == a[1] < b[1] \/ (a[1] = b[1] /\ a[2] < b[2])

RECURSIVE SortSizes(_)
SortSizes(S) ==
    IF S = {} THEN <<>>
    ELSE LET m == CHOOSE x \in S : \A y \in S : x = y \/ LexLess(x, y)
         IN  <<m>> \o SortSizes(S \ {m})

\* the ICO writer of the imaging library skips every requested size that is
\* larger than the image save() is called on, or larger than 256
IcoKeeps(im, s) ==
    ~ (s[1] > im.size[1] \/ s[2] > im.size[2] \/ s[1] > 256 \/ s[2] > 256)

\* the frame stored for a kept size: the image itself when it has that size,
\* else a copy of it scaled down to the size
IcoFrame(im, s) == IF im.size = s THEN im ELSE Resize(im, s)

\* Image.save(path, format='ICO', sizes=szs) called on im
IcoFile(im, szs) ==
    LET kept == SelectSeq(SortSizes(Range(szs)), LAMBDA s : IcoKeeps(im, s))
    IN  [fmt |-> "ICO", frames |-> [k \in 1 .. Len(kept) |-> IcoFrame(im, kept[k])]]

WriteFileOrWipe(files, path, content, ok) ==
    IF ok THEN [files EXCEPT ![path] = content]
    ELSE [f \in DOMAIN files |-> NoFile]

\* a save that succeeds replaces the file; one that raises writes nothing
WriteFile(files, path, content, ok) ==
    IF ok THEN [files EXCEPT ![path] = content] ELSE files

AfterSaveSwallowed(next, ok) == next

\* nothing catches the exception of a failed save: the script ends there
AfterSave(next, ok) == IF ok THEN next ELSE "crashed"

LoopSourceChained == IF idx = 1 THEN better_img ELSE resized

\* the image the PNG loop resamples in each iteration
LoopSource == better_img

\* the lines create_favicon() prints once everything is saved
ReportLines ==
    << "(completion message)", "(generated files:)" >>
    \o [k \in 1 .. Len(sizes) |-> "- favicon-" \o ToString(sizes[k]) \o ".png"]
    \o << "- favicon.png", "- favicon.ico" >>

(***************************************************************************)
(* Initial states.                                                         *)
(***************************************************************************)
Scripts == {"create_favicon", "create_better_favicon"}

InitCommon ==
    /\ drawLog = <<>>
    /\ font = "none"
    /\ font_error = FALSE
    /\ bbox = <<0, 0, 0, 0>>
    /\ pos = <<0, 0>>
    /\ ink = <<0, 0, 0, 0>>
    /\ better_img = NoRaster
    /\ resized = NoRaster
    /\ idx = 1
    /\ ico_images = <<>>
    /\ fs = [f \in Paths |-> NoFile]
    /\ attempts = <<>>
    /\ stdout = <<>>

Init ==
    /\ script \in Scripts
    /\ pc = "start"
    /\ img = <<>>
    /\ rrArgs = BackgroundArgs
    /\ InitCommon

(***************************************************************************)
(* create_favicon.py, statement by statement.                              *)
(***************************************************************************)
NewCanvasStep ==
    /\ script = "create_favicon"
    /\ pc = "start"
    /\ img' = NewCanvas
    /\ pc' = "draw_bg"
    /\ UNCHANGED <<script, rrArgs, drawLog, font, font_error, bbox, pos, ink,
                   better_img, resized, idx, ico_images, fs, attempts, stdout>>

DrawBackground ==
    /\ script = "create_favicon"
    /\ pc = "draw_bg"
    /\ img' = draw_rounded_rectangle(img, rrArgs.xy, rrArgs.r)
    /\ drawLog' = RoundedRectangleCalls(rrArgs.xy, rrArgs.r)
    /\ pc' = "load_font"
    /\ UNCHANGED <<script, rrArgs, font, font_error, bbox, pos, ink,
                   better_img, resized, idx, ico_images, fs, attempts, stdout>>

\* try: truetype(...)  except: load_default()
FontAfterLoad(raised) == IF raised THEN DefaultFont ELSE RequestedFont

PcAfterLoadPropagating(raised) == IF raised THEN "crashed" ELSE "measure"

\* the bare except swallows whatever truetype raised
PcAfterLoad(raised) == "measure"

LoadFont ==
    /\ script = "create_favicon"
    /\ pc = "load_font"
    /\ \E raised \in BOOLEAN :
        /\ font_error' = raised
        /\ font' = FontAfterLoad(raised)
        /\ pc' = PcAfterLoad(raised)
    /\ UNCHANGED <<script, img, rrArgs, drawLog, bbox, pos, ink,
                   better_img, resized, idx, ico_images, fs, attempts, stdout>>

MeasureText ==
    /\ script = "create_favicon"
    /\ pc = "measure"
    /\ \E bb \in BBoxes :
        /\ bbox' = bb
        /\ pos' = TextPosition(bb)
    /\ pc' = "draw_text"
    /\ UNCHANGED <<script, img, rrArgs, drawLog, font, font_error, ink,
                   better_img, resized, idx, ico_images, fs, attempts, stdout>>

DrawTextStep ==
    /\ script = "create_favicon"
    /\ pc = "draw_text"
    /\ ink' = DrawnInk(pos, bbox)
    /\ img' = DrawText(img, DrawnInk(pos, bbox))
    /\ pc' = "save"
    /\ UNCHANGED <<script, rrArgs, drawLog, font, font_error, bbox, pos,
                   better_img, resized, idx, ico_images, fs, attempts, stdout>>

SaveFavicon ==
    /\ script = "create_favicon"
    /\ pc = "save"
    /\ \E ok \in BOOLEAN :
        /\ attempts' = Append(attempts, [file |-> FaviconPath, ok |-> ok])
        /\ fs' = WriteFile(fs, FaviconPath,
                           PngFile([size |-> <<size, size>>,
                                    ops |-> <<"draw_rounded_rectangle", "text">>,
                                    hops |-> 0]), ok)
        /\ pc' = AfterSave("print", ok)
    /\ UNCHANGED <<script, img, rrArgs, drawLog, font, font_error, bbox, pos, ink,
                   better_img, resized, idx, ico_images, stdout>>

PrintSuccess ==
    /\ script = "create_favicon"
    /\ pc = "print"
    /\ stdout' = Append(stdout, "Favicon created successfully!")
    /\ pc' = "done"
    /\ UNCHANGED <<script, img, rrArgs, drawLog, font, font_error, bbox, pos, ink,
                   better_img, resized, idx, ico_images, fs, attempts>>

(***************************************************************************)
(* create_better_favicon.py, statement by statement.                       *)
(***************************************************************************)
UnchangedFontScript == UNCHANGED <<script, img, rrArgs, drawLog, font, font_error, bbox, pos, ink>>

NewImageStep ==
    /\ script = "create_better_favicon"
    /\ pc = "start"
    /\ better_img' = NewImage
    /\ pc' = "draw"
    /\ UnchangedFontScript
    /\ UNCHANGED <<resized, idx, ico_images, fs, attempts, stdout>>

DrawIcon ==
    /\ script = "create_better_favicon"
    /\ pc = "draw"
    /\ better_img' = Draw(better_img, DrawCalls[idx])
    /\ idx' = IF idx = Len(DrawCalls) THEN 1 ELSE idx + 1
    /\ pc' = IF idx = Len(DrawCalls) THEN "png_loop" ELSE "draw"
    /\ UnchangedFontScript
    /\ UNCHANGED <<resized, ico_images, fs, attempts, stdout>>

ResizeAndSavePng ==
    /\ script = "create_better_favicon"
    /\ pc = "png_loop"
    /\ LET s == sizes[idx]
           r == Resize(LoopSource, <<s, s>>)
       IN  /\ resized' = r
           /\ \E ok \in BOOLEAN :
                /\ attempts' = Append(attempts, [file |-> PngPath(s), ok |-> ok])
                /\ fs' = WriteFile(fs, PngPath(s), PngFile(r), ok)
                /\ pc' = AfterSave(IF idx = Len(sizes) THEN "save_png" ELSE "png_loop", ok)
                /\ idx' = IF ~ok THEN idx
                          ELSE IF idx = Len(sizes) THEN 1 ELSE idx + 1
    /\ UnchangedFontScript
    /\ UNCHANGED <<better_img, ico_images, stdout>>

SaveCanonical ==
    /\ script = "create_better_favicon"
    /\ pc = "save_png"
    /\ \E ok \in BOOLEAN :
        /\ attempts' = Append(attempts, [file |-> CanonicalPath, ok |-> ok])
        /\ fs' = WriteFile(fs, CanonicalPath, PngFile(better_img), ok)
        /\ pc' = AfterSave("ico_loop", ok)
    /\ UnchangedFontScript
    /\ UNCHANGED <<better_img, resized, idx, ico_images, stdout>>

ResizeForIco ==
    /\ script = "create_better_favicon"
    /\ pc = "ico_loop"
    /\ ico_images' = Append(ico_images, Resize(better_img, ico_sizes[idx]))
    /\ idx' = IF idx = Len(ico_sizes) THEN 1 ELSE idx + 1
    /\ pc' = IF idx = Len(ico_sizes) THEN "save_ico" ELSE "ico_loop"
    /\ UnchangedFontScript
    /\ UNCHANGED <<better_img, resized, fs, attempts, stdout>>

SaveIco ==
    /\ script = "create_better_favicon"
    /\ pc = "save_ico"
    /\ \E ok \in BOOLEAN :
        /\ attempts' = Append(attempts, [file |-> IcoPath, ok |-> ok])
        /\ fs' = WriteFile(fs, IcoPath, IcoFile(ico_images[1], ico_sizes), ok)
        /\ pc' = AfterSave("print", ok)
    /\ UnchangedFontScript
    /\ UNCHANGED <<better_img, resized, idx, ico_images, stdout>>

PrintReport ==
    /\ script = "create_better_favicon"
    /\ pc = "print"
    /\ stdout' = stdout \o ReportLines
    /\ pc' = "done"
    /\ UnchangedFontScript
    /\ UNCHANGED <<better_img, resized, idx, ico_images, fs, attempts>>

Next ==
    \/ NewCanvasStep
    \/ DrawBackground
    \/ LoadFont
    \/ MeasureText
    \/ DrawTextStep
    \/ SaveFavicon
    \/ PrintSuccess
    \/ NewImageStep
    \/ DrawIcon
    \/ ResizeAndSavePng
    \/ SaveCanonical
    \/ ResizeForIco
    \/ SaveIco
    \/ PrintReport

Spec == Init /\ [][Next]_vars

(***************************************************************************)
(* draw_rounded_rectangle as a function of its arguments: the call is      *)
(* applied to a fresh canvas for every box and radius within the bounds.   *)
(***************************************************************************)
RectInputs ==
    {[xy |-> <<x0, y0, x1, y1>>, r |-> r] :
        x0 \in 0 .. MaxMargin, y0 \in 0 .. MaxMargin,
        x1 \in (size - 1 - MaxMargin) .. (size - 1),
        y1 \in (size - 1 - MaxMargin) .. (size - 1),
        r \in 1 .. MaxRadius}

InitRect ==
    /\ script = "create_favicon"
    /\ pc = "draw_bg"
    /\ img = NewCanvas
    /\ rrArgs \in RectInputs
    /\ InitCommon

NextRect == DrawBackground

SpecRect == InitRect /\ [][NextRect]_vars

(***************************************************************************)
(* Properties.                                                             *)
(***************************************************************************)
Better == script = "create_better_favicon"
Favicon == script = "create_favicon"

\* the files that exist on disk
Present == {f \in Paths : fs[f] # NoFile}

\* the sizes of the rasters a file holds, in file order
FrameSizes(file) == [k \in DOMAIN file.frames |-> file.frames[k].size]

\* C1: the ICO written by the export holds exactly the requested resolutions,
\* 16x16, 32x32 and 48x48, when save() is called on the 16x16 resample.
C1_IcoHoldsRequestedSizes ==
    (Better /\ fs[IcoPath].fmt = "ICO") =>
        /\ ico_images[1].size = <<16, 16>>
        /\ FrameSizes(fs[IcoPath]) = << <<16, 16>>, <<32, 32>>, <<48, 48>> >>

\* the sized PNGs a complete run is to leave: size and path
ExpectedPngs ==
    { <<16, "static/images/favicon-16.png">>,
      <<32, "static/images/favicon-32.png">>,
      <<48, "static/images/favicon-48.png">>,
      <<96, "static/images/favicon-96.png">>,
      <<144, "static/images/favicon-144.png">>,
      <<256, "static/images/favicon-256.png">> }

\* how many saves were attempted on a path
SavesOf(path) == Cardinality({k \in DOMAIN attempts : attempts[k].file = path})

IsPngOfSize(path, w, h) ==
    /\ path \in DOMAIN fs
    /\ fs[path].fmt = "PNG"
    /\ FrameSizes(fs[path]) = << <<w, h>> >>

\* C2: a run that completes has written, for each target size S of
\* {16, 32, 48, 96, 144, 256}, exactly one PNG named favicon-S.png of SxS
\* pixels, each saved once, and one canonical favicon.png of 32x32: seven
\* PNG files in all.
C2_OnePngPerSize ==
    (Better /\ pc = "done") =>
        /\ \A e \in ExpectedPngs : IsPngOfSize(e[2], e[1], e[1]) /\ SavesOf(e[2]) = 1
        /\ IsPngOfSize("static/images/favicon.png", 32, 32)
        /\ SavesOf("static/images/favicon.png") = 1
        /\ {f \in Paths : fs[f].fmt = "PNG"}
             = {e[2] : e \in ExpectedPngs} \cup {"static/images/favicon.png"}

C2_Witness == Better /\ pc = "done" /\ Cardinality(Present) = 8

\* C3: every raster in an exported file (the sized PNGs, favicon.png, each
\* frame of favicon.ico) carries the content of the canvas as drawing left
\* it and is at most one resampling step away from it, and no step after
\* drawing changes the canvas.
C3_SingleSource ==
    Better =>
        /\ pc \notin {"start", "draw"} =>
              better_img = [size |-> <<32, 32>>, ops |-> DrawCalls, hops |-> 0]
        /\ \A f \in BetterPaths : \A k \in DOMAIN fs[f].frames :
              /\ fs[f].frames[k].ops = DrawCalls
              /\ fs[f].frames[k].hops <= 1
        /\ fs[CanonicalPath] # NoFile => fs[CanonicalPath].frames[1] = better_img

C3_Witness ==
    /\ Better
    /\ pc = "done"
    /\ Len(fs[IcoPath].frames) >= 1
    /\ fs["static/images/favicon-256.png"].frames[1].hops = 1

\* the order in which create_favicon() saves its files
WriteOrder ==
    << "static/images/favicon-16.png", "static/images/favicon-32.png",
       "static/images/favicon-48.png", "static/images/favicon-96.png",
       "static/images/favicon-144.png", "static/images/favicon-256.png",
       "static/images/favicon.png", "static/images/favicon.ico" >>

Ended == pc \in {"done", "crashed"}

\* C4 as stated: the export is all-or-nothing, a run that has ended has left
\* either none of its 8 output files or all of them.
C4_AllOrNothing ==
    (Better /\ Ended) => (Present = {} \/ Present = Range(WriteOrder))

\* C4, amended: nothing is rolled back. The saves are attempted in one fixed
\* order, the files on disk are exactly those of the saves that succeeded,
\* a run a save fails in leaves the files saved before it (fewer than 8),
\* and only a run in which no save fails leaves all 8.
C4_PrefixRemains ==
    Better =>
        /\ \A k \in DOMAIN attempts : k <= Len(WriteOrder) /\ attempts[k].file = WriteOrder[k]
        /\ Present = {attempts[k].file : k \in {j \in DOMAIN attempts : attempts[j].ok}}
        /\ pc = "crashed" =>
              /\ Present = {WriteOrder[k] : k \in 1 .. Len(attempts) - 1}
              /\ Present # Range(WriteOrder)
        /\ pc = "done" => Present = Range(WriteOrder)

C4_Witness == Better /\ pc = "crashed" /\ Cardinality(Present) = 3

\* the names the report lists, and the directory they were saved in
ListedNames ==
    { "favicon-16.png", "favicon-32.png", "favicon-48.png", "favicon-96.png",
      "favicon-144.png", "favicon-256.png", "favicon.png", "favicon.ico" }

\* C5: a failed save is fatal and never retried: the failed save is the last
\* save attempted, the script has ended there and has printed nothing; no
\* file is saved twice; and whatever is printed is printed after every save
\* succeeded, with every file the output names on disk.
C5_FailedSaveIsFatal ==
    /\ \A k \in DOMAIN attempts :
          ~ attempts[k].ok => (k = Len(attempts) /\ pc = "crashed" /\ stdout = <<>>)
    /\ \A j, k \in DOMAIN attempts : attempts[j].file = attempts[k].file => j = k
    /\ pc = "crashed" => stdout = <<>>
    /\ stdout # <<>> =>
          /\ \A k \in DOMAIN attempts : attempts[k].ok
          /\ Favicon => (stdout = <<"Favicon created successfully!">> /\ fs[FaviconPath] # NoFile)
          /\ Better =>
                /\ \A n \in ListedNames :
                      /\ ("- " \o n) \in Range(stdout)
                      /\ ("static/images/" \o n) \in Present
                /\ Len(stdout) = 2 + Cardinality(ListedNames)

C5_Witness ==
    /\ pc = "crashed"
    /\ Len(attempts) >= 2
    /\ ~ attempts[Len(attempts)].ok

\* C6: a failure to load the requested font does not end create_favicon.py
\* and is not surfaced: the default font is in use exactly when loading
\* raised, the script ends early only by a failed save, a run whose font
\* failed always has a next statement until it ends, and it measures, draws
\* and saves as the run with the loaded font does.
C6_FontFallback ==
    Favicon =>
        /\ font = DefaultFont <=> font_error
        /\ pc \notin {"start", "draw_bg", "load_font"} => font \in {RequestedFont, DefaultFont}
        /\ pc = "crashed" => (attempts # <<>> /\ ~ attempts[Len(attempts)].ok)
        /\ (font_error /\ ~ Ended) => ENABLED Next
        /\ (font_error /\ pc \in {"draw_text", "save", "print", "done"}) =>
              pos = TextPosition(bbox)
        /\ (font_error /\ pc \in {"save", "print", "done"}) => ink = DrawnInk(pos, bbox)
        /\ (font_error /\ pc \in {"print", "done"}) => fs[FaviconPath] # NoFile
        /\ (font_error /\ pc = "done") => stdout = <<"Favicon created successfully!">>

C6_Witness == Favicon /\ font_error /\ font = DefaultFont /\ pc = "done"

\* C7: once draw_rounded_rectangle has run on the transparent 32x32 canvas
\* with box [2, 2, 30, 30] and radius 6, the four image corners and the four
\* corners of the box are still transparent and the four edge midpoints of
\* the box are painted.
C7_CornersClearMidpointsPainted ==
    (Favicon /\ rrArgs = BackgroundArgs /\ pc \notin {"start", "draw_bg"}) =>
        /\ \A p \in { <<0, 0>>, <<31, 0>>, <<0, 31>>, <<31, 31>>,
                      <<2, 2>>, <<30, 2>>, <<2, 30>>, <<30, 30>> } :
              img[p] = "transparent"
        /\ \A p \in { <<16, 2>>, <<16, 30>>, <<2, 16>>, <<30, 16>> } :
              img[p] # "transparent"

C7_Witness ==
    /\ Favicon
    /\ pc = "load_font"
    /\ rrArgs = [xy |-> <<2, 2, 30, 30>>, r |-> 6]
    /\ img[<<16, 2>>] = "#e5e7eb"
    /\ img[<<2, 2>>] = "transparent"

\* the strips with each side moved in by d, for the box and radius of the call
StripsInsetBy(d) ==
    LET x0 == rrArgs.xy[1]  y0 == rrArgs.xy[2]
        x1 == rrArgs.xy[3]  y1 == rrArgs.xy[4]
    IN  << Rect(<<x0 + d, y0, x1 - d, y1>>), Rect(<<x0, y0 + d, x1, y1 - d>>) >>

\* C8 as stated: the first fill is the strip of full height moved in
\* horizontally by the corner diameter 2r on each side, the second the strip
\* of full width moved in vertically by 2r on each side.
C8_StripsInsetByDiameter ==
    drawLog # <<>> => SubSeq(drawLog, 1, 2) = StripsInsetBy(2 * rrArgs.r)

\* C8, amended: the two strips are moved in by the corner radius r, not the
\* diameter: the first spans x0+r..x1-r over the full height y0..y1, the
\* second y0+r..y1-r over the full width x0..x1, and the canvas is painted
\* on all of both.
C8_StripsInsetByRadius ==
    drawLog # <<>> =>
        /\ SubSeq(drawLog, 1, 2) = StripsInsetBy(rrArgs.r)
        /\ \A p \in Pixels :
              (InRectangle(StripsInsetBy(rrArgs.r)[1].box, p)
                 \/ InRectangle(StripsInsetBy(rrArgs.r)[2].box, p))
              => img[p] # "transparent"

C8_Witness ==
    /\ drawLog # <<>>
    /\ rrArgs = BackgroundArgs
    /\ drawLog[1].box = <<8, 2, 24, 30>>
    /\ drawLog[2].box = <<2, 8, 30, 24>>

\* the four corners of the call's box: the 2r x 2r box at the corner, the
\* direction <<sx, sy>> (y downwards) pointing away from the rectangle's
\* centre there, and the angular range the claim gives for it
Corners ==
    LET x0 == rrArgs.xy[1]  y0 == rrArgs.xy[2]
        x1 == rrArgs.xy[3]  y1 == rrArgs.xy[4]
        d  == 2 * rrArgs.r
    IN  { [box |-> <<x0, y0, x0 + d, y0 + d>>, out |-> <<-1, -1>>, start |-> 180, end |-> 270],
          [box |-> <<x1 - d, y0, x1, y0 + d>>, out |-> <<1, -1>>, start |-> 270, end |-> 360],
          [box |-> <<x0, y1 - d, x0 + d, y1>>, out |-> <<-1, 1>>, start |-> 90, end |-> 180],
          [box |-> <<x1 - d, y1 - d, x1, y1>>, out |-> <<1, 1>>, start |-> 0, end |-> 90] }

\* the quadrant of a 90 degree range starting at angle a when angles are read
\* from 3 o'clock increasing counterclockwise: angle a points to
\* <<cos a, -sin a>> with y growing downwards
QuadrantCounterclockwise(a) ==
    CASE a = 0   -> <<1, -1>>
      [] a = 90  -> <<-1, -1>>
      [] a = 180 -> <<-1, 1>>
      [] a = 270 -> <<1, 1>>

\* whether the pixels a pie slice call paints exist and all lie in the
\* quadrant q of the call's box
PaintsQuadrant(c, q) ==
    LET cx == (c.box[1] + c.box[3]) \div 2
        cy == (c.box[2] + c.box[4]) \div 2
        P  == {p \in Pixels : CallPaints(c, p)}
    IN  /\ P # {}
        /\ \A p \in P : (p[1] - cx) * q[1] >= 0 /\ (p[2] - cy) * q[2] >= 0
        /\ \E p \in P : (p[1] - cx) * q[1] > 0
        /\ \E p \in P : (p[2] - cy) * q[2] > 0

\* the fixed order, and one quarter-disc per corner in the stated range
StripsThenCorners ==
    /\ Len(drawLog) = 6
    /\ \A k \in 1 .. 2 : drawLog[k].op = "rectangle"
    /\ \A k \in 3 .. 6 : drawLog[k].op = "pieslice"
    /\ {[box |-> drawLog[k].box, start |-> drawLog[k].start, end |-> drawLog[k].end] :
            k \in 3 .. 6}
         = {[box |-> c.box, start |-> c.start, end |-> c.end] : c \in Corners}

\* C9 as stated: strips first, then a quarter-disc per corner in the ranges
\* 180-270, 270-360, 90-180, 0-90, each covering the quadrant that points
\* outward, with angles read from 3 o'clock increasing counterclockwise.
C9_OutwardCounterclockwise ==
    drawLog # <<>> =>
        /\ StripsThenCorners
        /\ \A k \in 3 .. 6 : \E c \in Corners :
              /\ c.box = drawLog[k].box
              /\ QuadrantCounterclockwise(drawLog[k].start) = c.out
              /\ PaintsQuadrant(drawLog[k], QuadrantCounterclockwise(drawLog[k].start))

\* C9, amended: the same order, boxes and ranges, and each quarter-disc
\* covers the outward quadrant, with angles read from 3 o'clock increasing
\* clockwise on the image (y grows downwards), which is how the drawing
\* call reads them.
C9_OutwardClockwise ==
    drawLog # <<>> =>
        /\ StripsThenCorners
        /\ \A k \in 3 .. 6 : \E c \in Corners :
              /\ c.box = drawLog[k].box
              /\ QuadrantClockwise(drawLog[k].start) = c.out
              /\ PaintsQuadrant(drawLog[k], c.out)
              /\ \A p \in Pixels : CallPaints(drawLog[k], p) => img[p] # "transparent"

C9_Witness ==
    /\ Len(drawLog) = 6
    /\ rrArgs = BackgroundArgs
    /\ drawLog[3] = Pie(<<2, 2, 14, 14>>, 180, 270)
    /\ img[<<4, 4>>] # "transparent"

\* integer division that truncates towards zero
Trunc(a, b) == IF a >= 0 THEN a \div b ELSE -((-a) \div b)

\* C10: the letter is centred: for every measured box the drawing position
\* is x = trunc((32 - width) / 2), y = trunc((32 - height) / 2) - 2, and the
\* box of the letter as drawn is centred horizontally to within one pixel
\* and vertically to within one pixel of 2 pixels above the centre, also
\* when the measured left or top is not 0.
C10_GlyphCentred ==
    (Favicon /\ pc \in {"save", "print", "done"}) =>
        /\ pos = << Trunc(32 - (bbox[3] - bbox[1]), 2),
                    Trunc(32 - (bbox[4] - bbox[2]), 2) - 2 >>
        /\ Abs((ink[1] + ink[3]) - 32) <= 2
        /\ Abs((ink[2] + ink[4]) - (32 - 4)) <= 2

====
